---- MODULE Spec2Model ----
(***************************************************************************)
(* Model of notebooks/DenseNet.ipynb: the data cells (annotation           *)
(* flattening, shuffle/split, sampling weights) and the training cells     *)
(* (train_epoch / eval_epoch, plateau scheduler, test evaluation).         *)
(*                                                                         *)
(* The notebook is a sequence of cells run against one kernel.  A cell     *)
(* that raises leaves the kernel with every assignment it made before the  *)
(* exception; `error` holds the exception of the last cell run.            *)
(***************************************************************************)
EXTENDS Integers, Sequences, FiniteSets, TLC

VARIABLES
    annotations,      \* json.load(f): the parsed annotation file
    dataset_records,  \* the global list the flattening loop appends to
    labels,           \* the global `labels`, if defined: the label list of
                      \* the flattening cell, later the last test batch
    classes,          \* `classes` (with label2idx and the transforms of
                      \* the same cell), if defined
    rng,              \* state of the process-wide `random` generator
    tr, vr,           \* train_ratio, val_ratio of the split calls
    train_records, val_records, test_records,
    split_runs,       \* how many times the split cell has run
    split_log,        \* one entry per split_dataset call: inputs and result
    weights,          \* sampling weights, one per training record
    viz_done,         \* the visualisation cell has run
    last_cell,        \* the data cell that ran last
    error,            \* exception raised by the last cell ("none" if none)
    train_size, val_size, test_size,   \* len(train_ds), len(val_ds), len(test_ds)
    pc,               \* position in the training and evaluation cells
    loop_runs,        \* how many times the epoch-loop cell has been started
    epoch,            \* the loop variable of the epoch loop, if bound
    bi,               \* batches the current loader has yielded
    training,         \* model.training, set by model.train() / model.eval()
    params,           \* number of optimizer updates applied to the parameters
    bn_stats,         \* number of updates of the batch-norm running statistics
    lr,               \* optimizer.param_groups[0]['lr'], in units of 1e-8
    best,             \* scheduler.best
    num_bad_epochs,   \* scheduler.num_bad_epochs
    running_loss, correct, total,      \* accumulators of the running epoch
    val_loss,         \* the mean loss eval_epoch returned
    all_preds, all_labels,             \* the lists of the test evaluation cell
    acc,              \* accuracy_score(all_labels, all_preds)
    cm                \* confusion_matrix(all_labels, all_preds)

dvars == <<annotations, dataset_records, labels, classes, rng, tr, vr,
           train_records, val_records, test_records, split_runs, split_log,
           weights, viz_done, last_cell>>

tvars == <<train_size, val_size, test_size, pc, loop_runs, epoch, bi,
           training, params, bn_stats, lr, best, num_bad_epochs, running_loss, correct, total,
           val_loss, all_preds, all_labels, acc, cm>>

vars == <<dvars, tvars, error>>

----------------------------------------------------------------------------
(* Bounds of the model                                                      *)

MaxEntries == 2        \* annotation entries in the input file
MaxSplitRuns == 2      \* runs of the split cell, calls of split_dataset
MaxRecords == 5        \* length of the lists split_dataset is called with
MaxObjects == 7        \* objects of the annotation file that is trained on
MaxLoopRuns == 5       \* runs of the epoch-loop cell

----------------------------------------------------------------------------
(* Small helpers                                                            *)

Min(a, b) == IF a < b THEN a ELSE b

Max(a, b) == IF a < b THEN b ELSE a

Range(s) == {s[i] : i \in 1..Len(s)}

\* A rational number num/den with den > 0: a decimal literal of the source
\* (0.7 is Rat(7, 10)), a loss, a weight.
Rat(n, d) == [num |-> n, den |-> d]

RatAdd(a, b) == Rat(a.num * b.den + b.num * a.den, a.den * b.den)

RatLeq(a, b) == a.num * b.den <= b.num * a.den

RatEq(a, b) == a.num * b.den = b.num * a.den

----------------------------------------------------------------------------
(* Natural numbers of any size                                              *)
(* A sequence of limbs below LimbBase, least significant first, without a   *)
(* zero limb at the top; <<>> is zero.  They carry the 53-bit significands  *)
(* of Python's floats.                                                      *)

LimbBits == 15
LimbBase == 32768

RECURSIVE Pow2(_)
Pow2(k) == IF k = 0 THEN 1 ELSE 2 * Pow2(k - 1)

RECURSIVE BitLen(_)
BitLen(n) == IF n = 0 THEN 0 ELSE 1 + BitLen(n \div 2)

RECURSIVE BigTrim(_)
BigTrim(x) ==
    IF x = <<>> THEN <<>>
    ELSE IF x[Len(x)] = 0 THEN BigTrim(SubSeq(x, 1, Len(x) - 1))
    ELSE x

RECURSIVE BigOfInt(_)
BigOfInt(n) ==
    IF n = 0 THEN <<>>
    ELSE <<n % LimbBase>> \o BigOfInt(n \div LimbBase)

RECURSIVE IntOfBig(_)
IntOfBig(x) ==
    IF x = <<>> THEN 0 ELSE Head(x) + LimbBase * IntOfBig(Tail(x))

RECURSIVE BigAddCarry(_, _, _)
BigAddCarry(x, y, c) ==
    IF x = <<>> /\ y = <<>> THEN (IF c = 0 THEN <<>> ELSE <<c>>)
    ELSE LET a == IF x = <<>> THEN 0 ELSE Head(x)
             b == IF y = <<>> THEN 0 ELSE Head(y)
             t == a + b + c
         IN  <<t % LimbBase>> \o
             BigAddCarry(IF x = <<>> THEN <<>> ELSE Tail(x),
                         IF y = <<>> THEN <<>> ELSE Tail(y),
                         t \div LimbBase)

BigAdd(x, y) == BigAddCarry(x, y, 0)

\* x * m + c for 0 <= m <= LimbBase.
RECURSIVE BigMulSmallCarry(_, _, _)
BigMulSmallCarry(x, m, c) ==
    IF x = <<>> THEN BigOfInt(c)
    ELSE LET t == Head(x) * m + c
         IN  <<t % LimbBase>> \o BigMulSmallCarry(Tail(x), m, t \div LimbBase)

BigMulSmall(x, m) == BigTrim(BigMulSmallCarry(x, m, 0))

RECURSIVE BigMulLimbs(_, _)
BigMulLimbs(x, y) ==
    IF y = <<>> THEN <<>>
    ELSE BigAdd(BigMulSmallCarry(x, Head(y), 0),
                <<0>> \o BigMulLimbs(x, Tail(y)))

BigMul(x, y) == BigTrim(BigMulLimbs(x, y))

\* Quotient and remainder of x by d, 0 < d <= LimbBase; q is not trimmed.
RECURSIVE BigDivLimbs(_, _)
BigDivLimbs(x, d) ==
    IF x = <<>> THEN [q |-> <<>>, r |-> 0]
    ELSE LET hi == BigDivLimbs(Tail(x), d)
             cur == hi.r * LimbBase + Head(x)
         IN  [q |-> <<cur \div d>> \o hi.q, r |-> cur % d]

BigDivSmall(x, d) ==
    LET t == BigDivLimbs(x, d) IN [q |-> BigTrim(t.q), r |-> t.r]

BigBitLen(x) ==
    IF x = <<>> THEN 0 ELSE LimbBits * (Len(x) - 1) + BitLen(x[Len(x)])

\* x * 2^s
BigShl(x, s) ==
    IF x = <<>> THEN <<>>
    ELSE [i \in 1..(s \div LimbBits) |-> 0] \o
         BigMulSmall(x, Pow2(s % LimbBits))

\* x \div 2^s
BigShr(x, s) ==
    LET w == s \div LimbBits IN
    IF w >= Len(x) THEN <<>>
    ELSE BigDivSmall(SubSeq(x, w + 1, Len(x)), Pow2(s % LimbBits)).q

BigOdd(x) == x # <<>> /\ Head(x) % 2 = 1

----------------------------------------------------------------------------
(* Python floats (IEEE-754 binary64), non-negative and in the normal range  *)
(* The float [m, k] has the value m / 2^k, with m below 2^53 unless the     *)
(* rounding carried into 2^53 itself.                                       *)

MantissaBits == 53

\* The float nearest to the exact value M / 2^K, ties to the even
\* significand: the rounding of every float operation.
RoundToFloat(M, K) ==
    LET len == BigBitLen(M) IN
    IF len <= MantissaBits THEN [m |-> M, k |-> K]
    ELSE LET s == len - MantissaBits
             q2 == BigShr(M, s - 1)
             sticky == BigShl(q2, s - 1) # M
             q == BigShr(q2, 1)
             up == BigOdd(q2) /\ (sticky \/ BigOdd(q))
         IN  [m |-> IF up THEN BigAdd(q, <<1>>) ELSE q, k |-> K - s]

\* The float a decimal literal num/den denotes (0 <= num, 0 < den <=
\* LimbBase): the quotient is taken to 64 bits and more, a bit that tells
\* whether the division left a remainder is appended, and the whole rounded.
FloatOfDecimal(r) ==
    IF r.num = 0 THEN [m |-> <<>>, k |-> 0]
    ELSE LET K == 64 + BitLen(r.den)
             d == BigDivSmall(BigShl(BigOfInt(r.num), K), r.den)
             Q == BigAdd(BigMulSmall(d.q, 2),
                         IF d.r = 0 THEN <<>> ELSE <<1>>)
         IN  RoundToFloat(Q, K + 1)

\* float(n) for an int 0 <= n < 2^53: exact.
FloatOfInt(n) == [m |-> BigOfInt(n), k |-> 0]

\* a + b
FloatAdd(a, b) ==
    LET K == Max(a.k, b.k) IN
    RoundToFloat(BigAdd(BigShl(a.m, K - a.k), BigShl(b.m, K - b.k)), K)

\* a * b
FloatMul(a, b) == RoundToFloat(BigMul(a.m, b.m), a.k + b.k)

\* int(a): truncation toward zero.
IntOfFloat(a) ==
    IF a.k >= 0 THEN IntOfBig(BigShr(a.m, a.k))
    ELSE IntOfBig(BigShl(a.m, 0 - a.k))

\* n * r for an int n and a float r: the int is converted first.
IntTimesFloat(n, r) == FloatMul(FloatOfInt(n), r)

----------------------------------------------------------------------------
(* JSON values of the annotation file                                       *)
(* kind "int": the integer n; kind "float": the float n/2; kind "str": the  *)
(* decimal string whose characters are `digits`; kind "missing": the key    *)
(* is absent from its dictionary.                                           *)

JInt(n) == [kind |-> "int", n |-> n, digits |-> <<>>]
JFloatHalves(n) == [kind |-> "float", n |-> n, digits |-> <<>>]
JStr(ds) == [kind |-> "str", n |-> 0, digits |-> ds]
JMissing == [kind |-> "missing", n |-> 0, digits |-> <<>>]

DigitVal(c) ==
    CASE c = "0" -> 0 [] c = "1" -> 1 [] c = "2" -> 2 [] c = "3" -> 3
      [] c = "4" -> 4 [] c = "5" -> 5 [] c = "6" -> 6 [] c = "7" -> 7
      [] c = "8" -> 8 [] c = "9" -> 9

RECURSIVE ParseDigits(_, _)
ParseDigits(ds, sofar) ==
    IF ds = <<>> THEN sofar
    ELSE ParseDigits(Tail(ds), 10 * sofar + DigitVal(Head(ds)))

\* Python's int(v): identity on ints, truncation toward zero on floats,
\* decimal parsing (with an optional leading minus sign) on strings.
PyInt(v) ==
    CASE v.kind = "int" -> v.n
      [] v.kind = "float" ->
            IF v.n >= 0 THEN v.n \div 2 ELSE 0 - ((0 - v.n) \div 2)
      [] v.kind = "str" ->
            IF Head(v.digits) = "-"
            THEN 0 - ParseDigits(Tail(v.digits), 0)
            ELSE ParseDigits(v.digits, 0)

----------------------------------------------------------------------------
(* Annotation inputs                                                        *)

BBox(x, y, w, h) == [x |-> x, y |-> y, w |-> w, h |-> h]

Obj(t, b) == [has_type |-> TRUE, type |-> t, has_bbox |-> TRUE, bbox |-> b]

ObjRing == Obj("ring", BBox(JInt(10), JInt(0), JInt(3), JInt(4)))

ObjSchizont ==
    Obj("schizont",
        BBox(JStr(<<"1", "2">>), JFloatHalves(7), JInt(5), JStr(<<"8">>)))

GoodObjs == {ObjRing, ObjSchizont}

ImageNames == <<"a.png", "b.png", "c.png", "d.png">>

ImageOf(i) == ImageNames[Min(i, Len(ImageNames))]

Entry(i, objs) ==
    [has_image_name |-> TRUE, image_name |-> ImageOf(i),
     has_objects |-> TRUE, objects |-> objs]

\* The object lists an entry is given: none, one, two or three objects.
ObjectLists ==
    {<<>>} \cup {<<o>> : o \in GoodObjs}
           \cup {<<o, p>> : o \in GoodObjs, p \in GoodObjs}
           \cup {<<ObjRing, ObjRing, ObjSchizont>>}

RingLists == {<<ObjRing>>, <<ObjRing, ObjRing>>}

\* Well-formed annotation files: up to MaxEntries entries.
GoodAnnotations ==
    UNION { { [i \in 1..k |-> Entry(i, os[i])] :
                os \in [1..k -> ObjectLists] } :
            k \in 0..MaxEntries }

\* Well-formed files whose objects are all ObjRing: the bases that the
\* defects below are injected into.
RingAnnotations ==
    UNION { { [i \in 1..k |-> Entry(i, os[i])] :
                os \in [1..k -> RingLists] } :
            k \in 1..MaxEntries }

EntryDefects == {"no_image_name", "no_objects"}

ObjDefects == {"no_type", "no_bbox", "no_x", "no_h", "neg_w", "neg_h",
               "neg_float_w"}

DefectObj(o, d) ==
    CASE d = "no_type" -> [o EXCEPT !.has_type = FALSE]
      [] d = "no_bbox" -> [o EXCEPT !.has_bbox = FALSE]
      [] d = "no_x" -> [o EXCEPT !.bbox.x = JMissing]
      [] d = "no_h" -> [o EXCEPT !.bbox.h = JMissing]
      [] d = "neg_w" -> [o EXCEPT !.bbox.w = JInt(0 - 3)]
      [] d = "neg_h" -> [o EXCEPT !.bbox.h = JStr(<<"-", "4">>)]
      [] d = "neg_float_w" -> [o EXCEPT !.bbox.w = JFloatHalves(0 - 3)]

DefectEntry(e, d) ==
    CASE d = "no_image_name" -> [e EXCEPT !.has_image_name = FALSE]
      [] d = "no_objects" -> [e EXCEPT !.has_objects = FALSE]

DefectiveAnnotations ==
    UNION { { [a EXCEPT ![i] = DefectEntry(a[i], d)] :
                i \in 1..Len(a), d \in EntryDefects }
            \cup
            UNION { { [a EXCEPT ![i].objects[j] =
                                    DefectObj(a[i].objects[j], d)] :
                        j \in 1..Len(a[i].objects), d \in ObjDefects } :
                    i \in 1..Len(a) } :
            a \in RingAnnotations }

AnnotationInputs == GoodAnnotations \cup DefectiveAnnotations

----------------------------------------------------------------------------
(* Flattening cell                                                          *)

\* One record of dataset_records.  `id` is the identity of the dict object
\* (two records built from equal annotation objects are equal dicts but
\* distinct objects); it is the position at which the record was appended.
Record(id, img, label, bbox) ==
    [id |-> id, image |-> img, label |-> label, bbox |-> bbox]

BBoxKeys == <<"x", "y", "w", "h">>

BBoxField(b, k) ==
    CASE k = "x" -> b.x [] k = "y" -> b.y [] k = "w" -> b.w [] k = "h" -> b.h

\* obj['type'] and obj['bbox'][k] for k in x, y, w, h all exist.
ObjHasKeys(o) ==
    /\ o.has_type
    /\ o.has_bbox
    /\ \A i \in 1..4 : BBoxField(o.bbox, BBoxKeys[i]).kind # "missing"

\* Variant of AppendRecord: the record is inserted at the front.
InsertRecordFirst(sofar, img, o) ==
    LET bbox == [i \in 1..4 |-> PyInt(BBoxField(o.bbox, BBoxKeys[i]))]
    IN  <<Record(Len(sofar) + 1, img, o.type, bbox)>> \o sofar

\* Lines 65-68: label, bbox = [int(x), int(y), int(w), int(h)] and
\* dataset_records.append({'image': ..., 'label': ..., 'bbox': ...}).
AppendRecord(sofar, img, o) ==
    LET bbox == [i \in 1..4 |-> PyInt(BBoxField(o.bbox, BBoxKeys[i]))]
    IN  Append(sofar, Record(Len(sofar) + 1, img, o.type, bbox))

\* Inner loop (lines 64-68): appends one record per object of the entry;
\* a missing key raises KeyError and leaves what was appended so far.
RECURSIVE FlattenObjs(_, _, _)
FlattenObjs(img, objs, sofar) ==
    IF objs = <<>> THEN [records |-> sofar, err |-> "none"]
    ELSE LET o == Head(objs) IN
         IF ~ObjHasKeys(o) THEN [records |-> sofar, err |-> "KeyError"]
         ELSE FlattenObjs(img, Tail(objs), AppendRecord(sofar, img, o))

\* Outer loop (lines 62-68).
RECURSIVE FlattenEntries(_, _)
FlattenEntries(anns, sofar) ==
    IF anns = <<>> THEN [records |-> sofar, err |-> "none"]
    ELSE LET e == Head(anns) IN
         IF ~e.has_image_name \/ ~e.has_objects
         THEN [records |-> sofar, err |-> "KeyError"]
         ELSE LET r == FlattenObjs(e.image_name, e.objects, sofar) IN
              IF r.err # "none" THEN r
              ELSE FlattenEntries(Tail(anns), r.records)

\* A global name of the kernel: bound to a value, or not yet assigned.
Undefined == [def |-> FALSE, val |-> <<>>]

Defined(v) == [def |-> TRUE, val |-> v]

\* labels = [rec['label'] for rec in dataset_records]
LabelsOf(recs) == [i \in 1..Len(recs) |-> recs[i].label]

\* The flattening cell: dataset_records = [] followed by the loops and, when
\* they have not raised, by the assignment of `labels` (line 70).
Flatten ==
    /\ last_cell = "load"
    /\ LET r == FlattenEntries(annotations, <<>>) IN
         /\ dataset_records' = r.records
         /\ error' = r.err
         /\ labels' = IF r.err = "none" THEN Defined(LabelsOf(r.records))
                       ELSE labels
    /\ last_cell' = "flatten"
    /\ UNCHANGED <<annotations, classes, rng, tr, vr, train_records,
                   val_records, test_records, split_runs, split_log,
                   weights, viz_done>>
    /\ UNCHANGED tvars

----------------------------------------------------------------------------
(* The process-wide generator of the `random` module                        *)
(* The notebook seeds it with 42 and with nothing else, so its state is     *)
(* told by the number of 32-bit words drawn since random.seed(42).          *)

WordBits == 16

\* The upper WordBits bits of each of the first 1024 words the generator
\* yields after random.seed(42).
SeedWords ==
    <<
       41905,  7296,  1639, 48598, 18024, 16049, 14628,  9144, 48265,  6717,
       44348, 48540, 58469, 35741,  5697, 38698, 27651,  2082,  1952,  6140,
       14328, 15247, 33118, 39453,  1739, 36781, 13031, 46925, 42590, 45962,
       35713, 27493, 14446, 29439, 38618, 18231, 53046, 56970,   425, 49729,
       52810, 10463, 45753, 27696, 22298, 18210, 10189, 14110, 62731, 50036,
       22059,  6698,  6078, 24898,  6338, 23526, 55541, 22541, 39565, 17335,
       52895,  2847, 47823, 30108, 35142,  8180, 63774, 60443, 24807,  5164,
       36178, 19213, 54355, 41198, 40535, 58028, 56472, 23700, 37837, 12601,
       46174,  4558,  3003, 43336, 14935, 50663, 18965, 64567,  5229, 56054,
       15256, 56785,  6619, 24911, 18217, 29714, 41660, 54664, 23909, 10659,
       24260, 23283, 13730, 43920, 17496, 45994, 61384, 44796, 42469,  4679,
       39920, 41613, 11215, 35005, 47784, 16043, 10708, 30294, 24867, 17691,
       64849, 60646, 41943, 45099, 36500, 14392, 44866, 21252, 55237, 50352,
       50855,  3665, 15010, 53857,  2103, 52759, 20673, 26290, 17546,  4337,
       13826, 59843, 61794, 37170, 57433, 47049, 20622, 13934, 42954, 32717,
       25928, 57978, 59935, 42129, 30071,  9363, 17359,  9150, 16162, 48823,
       36789, 35322, 17219, 48956, 38311, 28077, 58839, 38242, 26175, 23723,
       14373, 65360, 65374,  9065, 33392, 32343,  5957, 49530,  3087, 56433,
        7185, 10016, 41120, 10484, 51909, 44596, 27666, 39086,  4163, 25216,
       25009, 39052, 65281, 30674, 34676, 16476, 63640, 36256, 56412, 61763,
         752, 44583, 47233,  7507, 44676, 57985, 35190, 49209, 17486, 50370,
       42006, 22293,  7310, 19234, 28492, 10365, 29735,   212, 62509, 47323,
       57399, 47164, 17261, 63693, 32806, 49935, 11708, 33271, 59809,  6973,
       57050, 40979, 19558, 55159, 41874, 33270, 39909, 13035, 10016, 24504,
       49971, 10587, 35348, 62488, 51028, 60452, 34757, 60194,    37, 39252,
       21243, 32021,  1276,  7331, 60889, 23788, 57587, 64574, 54504, 52872,
       20153, 15692,  3796, 15785, 57541, 37182, 62059,  5161,  5613, 47966,
       31849, 53478,  4535, 64093, 49846, 34911, 50189,  8241,  8414, 43237,
       31148, 62052, 36031, 10821, 17370, 34581, 57175, 39753, 27730, 63200,
       13880, 60877, 35343, 49497, 47836, 45211, 13182, 46723, 20428, 26148,
       65218, 44019, 42590, 24472, 28711, 58957, 33919, 29588,  7930, 16246,
       14725,  4196, 22156,  1378, 38555, 36301, 15080, 38564, 14432,   471,
        4652, 46389, 41359,  3858, 15003,  4417, 59337,  2058, 56337, 21654,
        4643, 33695, 15597, 18250, 43842, 31812, 14040, 35339,  8671, 47405,
       61309, 57827, 37423, 37762, 30976, 15925, 51420, 30996, 52920, 26677,
       12478,  6181,  6352, 43187, 28249, 23219, 27759, 26941, 30606, 56612,
       47780,  3550, 44129, 42824, 64498, 42348,  6449,  3972, 26386, 47724,
       22236, 52467, 56470,  7161, 16295, 12556, 12465, 35146, 29400,  9186,
       27648, 12025, 18254, 30318, 16371, 57310, 60507,  4940, 29041, 52954,
       56449, 56096, 36066,  6416,  3315, 42738, 65488, 35427, 54789,   967,
       63504,  6112, 60710, 49385, 55620, 15491, 10899, 26634, 31826, 31546,
       14008, 56665, 26282, 59142,  3842, 10789, 24836,   141, 64573, 25586,
       17380, 60720, 51384, 51454, 29819, 18694, 27722, 45651, 62738, 47874,
       65236, 51338, 36422, 43376, 47081, 31894, 10144, 12445, 19445, 14267,
       63485,  3832, 37957, 48217, 35533,  3994, 49019, 20552,  3746,  3286,
       38284, 31246, 32954, 60252, 55883, 34807, 10317,  3727, 62965, 33281,
        5250, 55793, 12178,  4490, 38996,  4453, 44250, 56480, 15414, 26461,
        7856, 61708, 58345, 37334, 16135, 37940, 38962,  2604, 40591,  5372,
       27474, 43081, 38251, 37042, 34261, 20733, 61256, 17089, 13386, 43891,
       46936, 20590, 15642, 17407, 25938,  8577, 44019, 42303, 19660, 29964,
       20720, 60884, 49274, 61324,  4754,   610, 30034, 40708, 65434, 36896,
       65280,  6552,  4801, 35234, 13969, 33153, 17380,  8680, 61162, 22872,
       57728,  4508, 57623, 16009, 24217, 18676, 10338, 28716, 54640, 35600,
       46107, 19825, 40086, 64477, 64699, 52894, 42858, 34664,   512, 43769,
       53549, 36346, 19620, 61063, 43475,  6788, 61533, 57548,  8800, 17332,
        7564, 58308,  7014, 48655, 36256, 10187, 17848, 18465, 39638, 13803,
       47029, 22471, 13342, 45055, 41565, 55896, 17300, 33122, 32016, 16457,
       59332, 59517, 55450,  3329,  6048, 41568, 27759, 54352, 18132,  2889,
         232, 21859, 50536,  8573, 41753, 64212, 17167, 10589, 48577, 28956,
       36154, 46246, 28028, 36759,   633,  7331,  4931, 61934, 57875, 45286,
       59239,  9768, 35755,  2361, 54696, 24196, 38175, 36210,  9705, 28166,
        8352,  2741, 20202, 23897, 58915, 61150, 52174, 63713, 56407,  2614,
       58911, 23449, 13767, 44699, 16353, 43708,  6736, 23178, 51125, 36692,
       57942, 57325, 26632, 63821, 40675, 49117, 10128, 60670, 60940, 15514,
       56662, 10649, 63976, 52421, 53134, 11603, 57764, 27020,  1624, 11754,
       48271, 60587, 21770, 51274, 61001, 26982, 52575, 43903, 56627, 48172,
       53133, 16263, 17485, 10433, 51601, 45958,  7084, 25070, 57158,  2537,
       56268, 30847, 14577, 13079, 53515, 60191, 30166, 22915, 20000, 53774,
       52123, 57103, 14915, 14609,  1550, 43255, 12656, 26113, 21512, 18258,
       56646,  4549, 63366, 50680, 18292, 23012, 42040, 33384, 26193, 44532,
       64300, 55290, 35141, 21702, 61553,  1808,  7559, 57477, 63596, 17118,
       11702, 38049, 63080, 64457, 17397,  2507,  7104, 39096, 28479, 22654,
       47745, 51539, 20557, 28599, 39728, 64502, 33516,  7578, 25244, 58949,
       37787, 12457, 16693,  2908, 46450, 28577,   110, 34073, 60658, 52855,
       35287, 45013, 47148, 61621, 48624, 48302, 43950, 12912, 23869, 28265,
        4585, 62185, 43531, 60343, 21639, 40839, 20572, 43475, 55575,  8167,
       47169, 58985, 19681, 33234, 20269, 43705, 26764, 21376, 26371, 45692,
       19376, 36333,  8341, 12572, 27554, 43576, 61627, 24847, 44388, 49029,
       59166, 11405, 40338, 37296, 19723, 26612, 35909, 54639,    26, 19914,
       18803, 13774, 28173, 51495, 38009, 39758, 42906, 21118, 30473, 28952,
       28977, 44277, 14005, 33500, 31010, 52018, 59059, 62903, 52168, 48231,
       11120, 43178,  5557, 18598, 33780, 43506, 41480, 40583, 21966,  6120,
       53636, 62390, 49226, 15392, 44092, 20343, 14722, 52858, 13050,  9656,
        1600,  3028, 16046, 64483, 31138, 40060, 55688, 50363,  4772, 29846,
       27160, 58073, 41272, 37727, 12742, 47077, 45636, 25164, 32399, 26191,
       15989,  9671, 42995, 45064,   363, 58501, 49215, 56389, 50465, 58029,
        6985, 51014, 27862, 14341, 11526, 52698, 62781, 45607, 33944, 30444,
        3291, 36530, 16331, 60127, 55596,  7953, 29914,  8738, 52521, 30450,
       43750, 34808, 64742, 36629, 39023, 20794, 62261, 49496, 58420, 29004,
       40150, 53412, 47138, 58459, 33081, 27966, 54432, 59431, 35905, 29223,
       58799, 10430, 48736, 56458, 31108, 29495, 16986, 49268, 16203, 55041,
       41789, 18173, 50188, 50965, 34163, 31758, 41074, 15679, 17996, 28827,
        5077, 46762, 18725, 15367, 17807, 22010, 20952, 58525, 35399,  5280,
        9068,  9884, 15155, 25102, 45478, 10014, 46295, 14021,  4209, 27188,
       26712, 21684, 35560, 30534, 27248,  4080, 13555, 54584, 27534, 25524,
       59299, 50449, 38278, 62001, 45581,  1280, 56146, 57714, 50174, 37728,
       24928, 31259,   386, 61783, 23052, 19569, 49379, 25558, 55931, 58434,
       62484, 54770, 27460, 35272, 48989, 48144, 35791, 52420, 39534, 58838,
       14453, 31996, 14380, 17887, 28562, 31827,  1902, 25484, 22028, 43835,
       44508, 52307, 26497, 47459, 10816, 55083, 30630, 60263,  8364, 64272,
       40780, 35004,  1767, 59436, 25822, 38790, 36987, 43450,  1776,  5501,
       42123, 28089,  8893, 56809, 30257, 11909,  3295, 17049, 24844, 21453,
       13871, 29799, 21420, 22118
    >>

\* random.seed(42): no word has been drawn.
SeededState == 0

\* getrandbits(k) for 0 < k <= WordBits: the upper k bits of the next word.
GetRandBits(s, k) ==
    [val |-> SeedWords[s + 1] \div Pow2(WordBits - k), state |-> s + 1]

\* random._randbelow(n): k = n.bit_length(); r = getrandbits(k);
\* while r >= n: r = getrandbits(k).
RECURSIVE RandBelow(_, _)
RandBelow(s, n) ==
    LET d == GetRandBits(s, BitLen(n)) IN
    IF d.val >= n THEN RandBelow(d.state, n) ELSE d

Swap(x, i, j) == [x EXCEPT ![i] = x[j], ![j] = x[i]]

\* One iteration of the loop of random.shuffle, i 0-based, on the list and
\* the generator state st holds:
\*     j = randbelow(i + 1); x[i], x[j] = x[j], x[i]
ShuffleStep(st, i) ==
    LET d == RandBelow(st.state, i + 1) IN
    [list |-> Swap(st.list, i + 1, d.val + 1), state |-> d.state]

\* The iterations i = hi, hi - 1, ..., lo of that loop, in this order (the
\* upper half of the range, then the lower half).
RECURSIVE ShuffleSteps(_, _, _)
ShuffleSteps(st, hi, lo) ==
    IF hi < lo \/ hi >= Len(st.list) THEN st
    ELSE IF hi = lo THEN ShuffleStep(st, hi)
    ELSE LET mid == (hi + lo + 1) \div 2 IN
         ShuffleSteps(ShuffleSteps(st, hi, mid), mid - 1, lo)

\* random.shuffle(x): for i in reversed(range(1, len(x))): ...
Shuffle(x, s) == ShuffleSteps([list |-> x, state |-> s], Len(x) - 1, 1)

NumSamples == 4
SampleSetSize == 21

\* random.sample, n <= setsize: for i in range(k): j = randbelow(n - i).
RECURSIVE SamplePool(_, _, _, _)
SamplePool(s, n, k, i) ==
    IF i >= k THEN s
    ELSE SamplePool(RandBelow(s, n - i).state, n, k, i + 1)

\* j = randbelow(n); while j in selected: j = randbelow(n)
RECURSIVE DrawUnselected(_, _, _)
DrawUnselected(s, n, selected) ==
    LET d == RandBelow(s, n) IN
    IF d.val \in selected THEN DrawUnselected(d.state, n, selected) ELSE d

\* random.sample, n > setsize: k distinct draws below n.
RECURSIVE SampleSelect(_, _, _, _, _)
SampleSelect(s, n, k, i, selected) ==
    IF i >= k THEN s
    ELSE LET d == DrawUnselected(s, n, selected) IN
         SampleSelect(d.state, n, k, i + 1, selected \cup {d.val})

\* The generator state random.sample(population, k) leaves, 0 <= k <= n and
\* k <= 5 (setsize is 21).  The sample itself is only drawn on a figure.
SampleState(s, n, k) ==
    IF n <= SampleSetSize THEN SamplePool(s, n, k, 0)
    ELSE SampleSelect(s, n, k, 0, {})

\* The seeding cell: random.seed(42).
Reseed ==
    /\ last_cell # "load"
    /\ rng # SeededState
    /\ rng' = SeededState
    /\ last_cell' = "seed"
    /\ error' = "none"
    /\ UNCHANGED <<annotations, dataset_records, labels, classes, tr, vr,
                   train_records, val_records, test_records, split_runs,
                   split_log, weights, viz_done>>
    /\ UNCHANGED tvars

\* The visualisation cell: random.sample(dataset_records, 4) raises
\* ValueError, before drawing, when there are fewer than 4 records.
VisualizeSamples ==
    /\ last_cell # "load"
    /\ ~viz_done
    /\ split_runs = 0
    /\ viz_done' = TRUE
    /\ last_cell' = "visualize"
    /\ IF Len(dataset_records) < NumSamples
       THEN /\ error' = "ValueError"
            /\ rng' = rng
       ELSE /\ error' = "none"
            /\ rng' = SampleState(rng, Len(dataset_records), NumSamples)
    /\ UNCHANGED <<annotations, dataset_records, labels, classes, tr, vr,
                   train_records, val_records, test_records, split_runs,
                   split_log, weights>>
    /\ UNCHANGED tvars

----------------------------------------------------------------------------
(* Split cell                                                               *)

\* The defaults of split_dataset: train_ratio=0.7, val_ratio=0.15.
DefaultTrainRatio == Rat(7, 10)
DefaultValRatio == Rat(3, 20)

\* train_end = int(n * train_ratio)
TrainEnd(n, trr) == IntOfFloat(IntTimesFloat(n, FloatOfDecimal(trr)))

\* Variant of ValEnd: the second cut taken at n * val_ratio alone.
ValEndNoSum(n, trr, vrr) == IntOfFloat(IntTimesFloat(n, FloatOfDecimal(vrr)))

\* val_end = int(n * (train_ratio + val_ratio))
ValEnd(n, trr, vrr) ==
    IntOfFloat(IntTimesFloat(n, FloatAdd(FloatOfDecimal(trr),
                                         FloatOfDecimal(vrr))))

\* records[lo:hi] for 0 <= lo, 0 <= hi: Python clamps both ends to len.
PySlice(x, lo, hi) ==
    LET a == Min(lo, Len(x))
        b == Min(hi, Len(x))
    IN  IF a >= b THEN <<>> ELSE SubSeq(x, a + 1, b)

\* split_dataset(records, train_ratio, val_ratio), called with the
\* generator in state s.  `list` is the argument list after the in-place
\* shuffle, `state` the generator state the call leaves.  The function has
\* no raise statement: `raised` is always "none".
SplitDataset(records, s, trr, vrr) ==
    LET sh == Shuffle(records, s)
        n == Len(sh.list)
        train_end == TrainEnd(n, trr)
        val_end == ValEnd(n, trr, vrr)
    IN  [list |-> sh.list, state |-> sh.state, raised |-> "none",
         train |-> PySlice(sh.list, 0, train_end),
         val |-> PySlice(sh.list, train_end, val_end),
         test |-> PySlice(sh.list, val_end, n)]

\* train_records, val_records, test_records =
\*     split_dataset(dataset_records, trr, vrr)
SplitAssign(trr, vrr) ==
    /\ last_cell # "load"
    /\ split_runs < MaxSplitRuns
    /\ \E r \in {SplitDataset(dataset_records, rng, trr, vrr)} :
         /\ dataset_records' = r.list
         /\ rng' = r.state
         /\ train_records' = r.train
         /\ val_records' = r.val
         /\ test_records' = r.test
         /\ error' = r.raised
         /\ split_log' = Append(split_log,
                [recs_in |-> dataset_records, rng_in |-> rng,
                 tr |-> trr, vr |-> vrr, raised |-> r.raised,
                 train |-> r.train, val |-> r.val, test |-> r.test])
    /\ split_runs' = split_runs + 1
    /\ last_cell' = "split"
    /\ UNCHANGED <<annotations, labels, classes, tr, vr, weights, viz_done>>
    /\ UNCHANGED tvars

\* The split cell (line 162): the call takes the default ratios.
Split == SplitAssign(DefaultTrainRatio, DefaultValRatio)

\* A call of split_dataset with the ratios tr, vr as arguments.
CallSplitDataset == SplitAssign(tr, vr)

----------------------------------------------------------------------------
(* Classes and transforms cell                                              *)

\* The labels of the annotation inputs, in the order sorted() gives them.
LabelOrder == <<"ring", "schizont">>

LabelOccurs(ls, l) == \E i \in 1..Len(ls) : ls[i] = l

\* sorted(set(labels))
Classes(ls) ==
    LET Occurs(l) == LabelOccurs(ls, l) IN SelectSeq(LabelOrder, Occurs)

\* label2idx[rec['label']], label2idx = {c: i for i, c in enumerate(classes)}
Label2Idx(cls, l) == (CHOOSE i \in 1..Len(cls) : cls[i] = l) - 1

\* The cell of lines 102-118: classes = sorted(set(labels)), label2idx,
\* idx2label, train_transforms, val_transforms.  When `labels` is not
\* defined its first line raises NameError and nothing is assigned.
MapLabels ==
    /\ last_cell \notin {"load", "classes"}
    /\ split_runs = 0
    /\ IF labels.def
       THEN /\ classes' = Defined(Classes(labels.val))
            /\ error' = "none"
       ELSE /\ classes' = classes
            /\ error' = "NameError"
    /\ last_cell' = "classes"
    /\ UNCHANGED <<annotations, dataset_records, labels, rng, tr, vr,
                   train_records, val_records, test_records, split_runs,
                   split_log, weights, viz_done>>
    /\ UNCHANGED tvars

----------------------------------------------------------------------------
(* Sampler cell                                                             *)

\* Counter(labels)[l]
LabelCount(recs, l) == Cardinality({i \in 1..Len(recs) : recs[i].label = l})

\* Variant of ComputeWeights: label counts taken over the whole dataset.
ComputeWeightsGlobal(train) ==
    [i \in 1..Len(train) |->
        Rat(1, LabelCount(dataset_records, train[i].label))]

\* label_counts = Counter(train_labels);
\* weights = [1.0 / label_counts[r['label']] for r in train_records]
ComputeWeights(train) ==
    [i \in 1..Len(train) |-> Rat(1, LabelCount(train, train[i].label))]

\* The exception of the sampler cell after `weights` is assigned:
\* WeightedRandomSampler(weights, num_samples=0, ...) raises ValueError
\* (line 177); MalariaDataset(train_records, transform=train_transforms)
\* raises NameError when the transforms cell has not assigned
\* train_transforms (line 179).
SamplerCellError(train, cls) ==
    IF Len(train) = 0 THEN "ValueError"
    ELSE IF ~cls.def THEN "NameError"
    ELSE "none"

\* The sampler cell (lines 174-185).  `weights` is assigned before anything
\* can raise, the datasets and loaders only when nothing has: train_ds,
\* val_ds and test_ds wrap the three lists and the loaders are built on
\* them.
Weights ==
    /\ last_cell = "split"
    /\ weights' = ComputeWeights(train_records)
    /\ error' = SamplerCellError(train_records, classes)
    /\ IF SamplerCellError(train_records, classes) # "none"
       THEN UNCHANGED <<train_size, val_size, test_size>>
       ELSE /\ train_size' = Len(train_records)
            /\ val_size' = Len(val_records)
            /\ test_size' = Len(test_records)
    /\ last_cell' = "weights"
    /\ UNCHANGED <<annotations, dataset_records, labels, classes, rng, tr, vr,
                   train_records, val_records, test_records, split_runs,
                   split_log, viz_done>>
    /\ UNCHANGED <<pc, loop_runs, epoch, bi, training, params, bn_stats, lr,
                   best, num_bad_epochs, running_loss, correct, total,
                   val_loss, all_preds, all_labels, acc, cm>>

----------------------------------------------------------------------------
(* The data cells as a state machine                                        *)

\* The training and evaluation cells have not run.
TrainIdle ==
    /\ pc = "idle" /\ loop_runs = 0 /\ epoch = Undefined /\ bi = 0
    /\ training = TRUE /\ params = 0 /\ bn_stats = 0
    /\ lr = Rat(0, 1) /\ best = [inf |-> TRUE, v |-> Rat(0, 1)]
    /\ num_bad_epochs = 0
    /\ running_loss = 0 /\ correct = 0 /\ total = 0
    /\ val_loss = Rat(0, 1)
    /\ all_preds = <<>> /\ all_labels = <<>>
    /\ acc = Rat(0, 1) /\ cm = <<>>

\* The state after the seeding cell and json.load.
Init ==
    /\ TrainIdle
    /\ train_size = 0 /\ val_size = 0 /\ test_size = 0
    /\ annotations \in AnnotationInputs
    /\ dataset_records = <<>>
    /\ labels = Undefined
    /\ classes = Undefined
    /\ rng = SeededState
    /\ tr = DefaultTrainRatio
    /\ vr = DefaultValRatio
    /\ train_records = <<>>
    /\ val_records = <<>>
    /\ test_records = <<>>
    /\ split_runs = 0
    /\ split_log = <<>>
    /\ weights = <<>>
    /\ viz_done = FALSE
    /\ last_cell = "load"
    /\ error = "none"

Next ==
    Flatten \/ Reseed \/ VisualizeSamples \/ MapLabels \/ Split \/ Weights

Spec == Init /\ [][Next]_vars

----------------------------------------------------------------------------
(* split_dataset as a function of its arguments                             *)

\* An annotation file of one entry with n objects, every third a schizont.
AnnotationOf(n) ==
    <<Entry(1, [j \in 1..n |-> IF j % 3 = 0 THEN ObjSchizont ELSE ObjRing])>>

\* The same with rings only.
RingAnnotationOf(n) == <<Entry(1, [j \in 1..n |-> ObjRing])>>

\* The ratios split_dataset is called with: the defaults, the example of
\* the specification, ratios at the ends of the range, and sums above 1.
RatioPairs ==
    { <<DefaultTrainRatio, DefaultValRatio>>, <<Rat(1, 2), Rat(1, 4)>>,
      <<Rat(7, 10), Rat(1, 10)>>, <<Rat(7, 10), Rat(3, 10)>>,
      <<Rat(0, 1), Rat(1, 2)>>, <<Rat(1, 1), Rat(0, 1)>>,
      <<Rat(1, 4), Rat(3, 4)>>, <<Rat(3, 4), Rat(1, 2)>>,
      <<Rat(1, 1), Rat(1, 1)>> }

\* The state after the seeding cell and the flattening cell on a file of up
\* to MaxRecords objects, with the ratios of the calls to come.
InitSplit ==
    /\ TrainIdle
    /\ train_size = 0 /\ val_size = 0 /\ test_size = 0
    /\ \E n \in 0..MaxRecords :
         /\ annotations = AnnotationOf(n)
         /\ dataset_records = FlattenEntries(AnnotationOf(n), <<>>).records
         /\ labels =
              Defined(LabelsOf(FlattenEntries(AnnotationOf(n), <<>>).records))
    /\ classes = Undefined
    /\ rng = SeededState
    /\ \E p \in RatioPairs : tr = p[1] /\ vr = p[2]
    /\ train_records = <<>>
    /\ val_records = <<>>
    /\ test_records = <<>>
    /\ split_runs = 0
    /\ split_log = <<>>
    /\ weights = <<>>
    /\ viz_done = FALSE
    /\ last_cell = "flatten"
    /\ error = "none"

NextSplit == CallSplitDataset \/ Reseed

SpecSplit == InitSplit /\ [][NextSplit]_vars

----------------------------------------------------------------------------
(* Properties of the data cells                                             *)

One == Rat(1, 1)

ValidRatios(e) == RatLeq(RatAdd(e.tr, e.vr), One)

\* The floor of n * r for 0 <= r <= 1, defined by its bounds.
FloorOf(n, r) ==
    CHOOSE k \in 0..n : k * r.den <= n * r.num /\ n * r.num < (k + 1) * r.den

IdsOf(recs) == {recs[i].id : i \in 1..Len(recs)}

IsPartition(e) ==
    LET all == e.train \o e.val \o e.test IN
    /\ Len(e.train) + Len(e.val) + Len(e.test) = Len(e.recs_in)
    /\ IdsOf(e.train) \cap IdsOf(e.val) = {}
    /\ IdsOf(e.train) \cap IdsOf(e.test) = {}
    /\ IdsOf(e.val) \cap IdsOf(e.test) = {}
    /\ \A i \in 1..Len(e.recs_in) :
          Cardinality({k \in 1..Len(all) : all[k] = e.recs_in[i]}) = 1

\* C1: every split_dataset call with ratios >= 0 that sum to at most 1
\* returns a true partition of its input: the three lengths add up to n, no
\* record is in two of the lists, every input record is in exactly one.
C1_SplitIsPartition ==
    \A k \in 1..Len(split_log) :
        ValidRatios(split_log[k]) => IsPartition(split_log[k])

C1_Witness ==
    \E k \in 1..Len(split_log) :
        /\ ValidRatios(split_log[k])
        /\ Len(split_log[k].train) > 0
        /\ Len(split_log[k].val) > 0
        /\ Len(split_log[k].test) > 0

SameMembers(e, f) ==
    /\ IdsOf(e.train) = IdsOf(f.train)
    /\ IdsOf(e.val) = IdsOf(f.val)
    /\ IdsOf(e.test) = IdsOf(f.test)

\* C2: two calls of the split on the same record list, with the same seed
\* (42, the only seed of the notebook) and the same ratios, produce
\* identical train, val and test membership.
C2_SplitRepeatable ==
    \A i \in 1..Len(split_log) : \A j \in 1..Len(split_log) :
        SameMembers(split_log[i], split_log[j])

\* Every key the flattening loop reads is present.
HasAllKeys(anns) ==
    \A i \in 1..Len(anns) :
        /\ anns[i].has_image_name
        /\ anns[i].has_objects
        /\ \A j \in 1..Len(anns[i].objects) : ObjHasKeys(anns[i].objects[j])

RECURSIVE NumObjectsBefore(_, _)
NumObjectsBefore(anns, i) ==
    IF i <= 1 THEN 0
    ELSE NumObjectsBefore(anns, i - 1) + Len(anns[i - 1].objects)

\* C3: the flattening loop produces exactly one record per (entry, object)
\* pair, N in total, in source order, each with the entry's image name and
\* the object's label and bounding box [x, y, w, h] as integers.
C3_FlattenComplete ==
    (last_cell = "flatten" /\ HasAllKeys(annotations)) =>
        /\ error = "none"
        /\ Len(dataset_records) =
               NumObjectsBefore(annotations, Len(annotations) + 1)
        /\ \A i \in 1..Len(annotations) :
             \A j \in 1..Len(annotations[i].objects) :
                LET o == annotations[i].objects[j]
                    r == dataset_records[NumObjectsBefore(annotations, i) + j]
                IN  /\ r.image = annotations[i].image_name
                    /\ r.label = o.type
                    /\ r.bbox = <<PyInt(o.bbox.x), PyInt(o.bbox.y),
                                  PyInt(o.bbox.w), PyInt(o.bbox.h)>>
                    /\ o = ObjSchizont => r.bbox = <<12, 3, 5, 8>>
                    /\ o = ObjRing => r.bbox = <<10, 0, 3, 4>>

C3_Witness ==
    /\ last_cell = "flatten"
    /\ error = "none"
    /\ Len(annotations) = 2
    /\ Len(dataset_records) = 4
    /\ dataset_records[2].label = "schizont"
    /\ dataset_records[3].label = "ring"
    /\ dataset_records[3].image = "b.png"

RECURSIVE RatSum(_, _)
RatSum(ws, I) ==
    IF I = {} THEN Rat(0, 1)
    ELSE LET i == CHOOSE x \in I : TRUE IN
         RatAdd(ws[i], RatSum(ws, I \ {i}))

SameLabel(recs, i) == {j \in 1..Len(recs) : recs[j].label = recs[i].label}

\* C4: each training record's weight is 1 / (number of records of the
\* training list that share its label), so the weights of each label
\* present in the training list sum to 1.
C4_WeightsInverseFrequency ==
    last_cell = "weights" =>
        /\ Len(weights) = Len(train_records)
        /\ \A i \in 1..Len(train_records) :
             /\ RatEq(weights[i],
                      Rat(1, Cardinality(SameLabel(train_records, i))))
             /\ RatEq(RatSum(weights, SameLabel(train_records, i)), One)

C4_Witness ==
    /\ last_cell = "weights"
    /\ \E i \in 1..Len(train_records) : \E j \in 1..Len(train_records) :
          /\ weights[i] = Rat(1, 1)
          /\ weights[j] = Rat(1, 2)
    /\ Len(dataset_records) > Len(train_records)

\* C5: with valid ratios the split cuts the shuffled list at
\* floor(n * train_ratio) and floor(n * (train_ratio + val_ratio)), the
\* products being those of the real numbers; 4 records with ratios 0.5 and
\* 0.25 give 2 train, 1 val, 1 test.
C5_SplitSizes ==
    \A k \in 1..Len(split_log) :
        LET e == split_log[k]
            n == Len(e.recs_in)
        IN  ValidRatios(e) =>
              /\ Len(e.train) = FloorOf(n, e.tr)
              /\ Len(e.val) = FloorOf(n, RatAdd(e.tr, e.vr)) - FloorOf(n, e.tr)
              /\ Len(e.test) = n - FloorOf(n, RatAdd(e.tr, e.vr))
              /\ (n = 4 /\ e.tr = Rat(1, 2) /\ e.vr = Rat(1, 4)) =>
                    /\ Len(e.train) = 2
                    /\ Len(e.val) = 1
                    /\ Len(e.test) = 1

\* C6: a split whose ratios sum to more than 1 fails with
\* InvalidRatioError and returns no partition.
C6_SplitRejectsRatios ==
    \A k \in 1..Len(split_log) :
        ~ValidRatios(split_log[k]) =>
            /\ split_log[k].raised = "InvalidRatioError"
            /\ split_log[k].train = <<>>
            /\ split_log[k].val = <<>>
            /\ split_log[k].test = <<>>

NegativeBox(o) ==
    /\ ObjHasKeys(o)
    /\ \/ o.bbox.w.kind = "int" /\ o.bbox.w.n < 0
       \/ o.bbox.h.kind = "int" /\ o.bbox.h.n < 0
       \/ o.bbox.w.kind = "float" /\ o.bbox.w.n < 0
       \/ o.bbox.h.kind = "float" /\ o.bbox.h.n < 0
       \/ o.bbox.w.kind = "str" /\ Head(o.bbox.w.digits) = "-"
       \/ o.bbox.h.kind = "str" /\ Head(o.bbox.h.digits) = "-"

Malformed(anns) ==
    \/ ~HasAllKeys(anns)
    \/ \E i \in 1..Len(anns) : \E j \in 1..Len(anns[i].objects) :
          NegativeBox(anns[i].objects[j])

\* C7: the flattener fails with MalformedAnnotationError, and leaves no
\* record list, when an entry lacks a required field or a bounding box has
\* a negative width or height.
C7_FlattenRejectsMalformed ==
    (last_cell = "flatten" /\ Malformed(annotations)) =>
        /\ error = "MalformedAnnotationError"
        /\ dataset_records = <<>>

----------------------------------------------------------------------------
(* Training cells: constants                                                *)

NumEpochs == 10        \* num_epochs
Patience == 2          \* ReduceLROnPlateau(patience=2)
BatchSize == 32        \* DataLoader(..., batch_size=32)

\* Losses a batch can have, in units of 1e-4.
LossValues == {0, 7000, 11999, 12000}

RatMul(a, b) == Rat(a.num * b.num, a.den * b.den)

RatSub(a, b) == Rat(a.num * b.den - b.num * a.den, a.den * b.den)

RatLt(a, b) == a.num * b.den < b.num * a.den

RatMax(a, b) == IF RatLt(a, b) THEN b ELSE a

RECURSIVE Gcd(_, _)
Gcd(a, b) == IF b = 0 THEN a ELSE Gcd(b, a % b)

\* The quotient n / d, d > 0, in lowest terms.
Quotient(n, d) == Rat(n \div Gcd(n, d), d \div Gcd(n, d))

\* lr=1e-4 of the Adam optimizer, in units of 1e-8.
LrInit == Rat(10000, 1)

\* ReduceLROnPlateau: factor=0.5; the defaults min_lr=0, eps=1e-8 (in units
\* of 1e-8) and mode='min', threshold_mode='rel' with 1 - threshold=1e-4.
Factor == Rat(1, 2)
MinLr == Rat(0, 1)
Eps == Rat(1, 1)
RelEpsilon == Rat(9999, 10000)

----------------------------------------------------------------------------
(* Loaders, model and scheduler                                             *)

\* len(classes): the width of the classifier layer.
NumClasses == Len(classes.val)

\* len(loader) for a dataset of n samples (drop_last is False).
NumBatches(n) == (n + BatchSize - 1) \div BatchSize

\* Size of the batch after i batches have been yielded.
BatchLen(n, i) == Min(BatchSize, n - i * BatchSize)

\* loss.item() of criterion(outputs, labels): the classifier has k logits,
\* and the cross entropy over a single logit is 0.
BatchLosses(k) == IF k = 1 THEN {0} ELSE LossValues

\* preds.eq(labels).sum().item() on a batch of the given size: with a single
\* logit every prediction is class 0, the only label.
BatchCorrect(k, size) == IF k = 1 THEN {size} ELSE 0..size

\* model.train() and model.eval() set model.training.
ModelTrain == TRUE

\* Variant of ModelEval: the call is missing, the mode stays as it was.
ModelEvalOmitted == training

ModelEval == FALSE

\* outputs = model(images): in training mode the forward pass updates the
\* running statistics of the batch-norm layers, in eval mode it does not.
ForwardStats(mode, stats) == IF mode THEN stats + 1 ELSE stats

\* optimizer.step() after loss.backward().
OptimizerStep(p) == p + 1

\* ReduceLROnPlateau.is_better(a, best): a < best * (1 - threshold).
IsBetter(a, b) == b.inf \/ RatLt(a, RatMul(b.v, RelEpsilon))

\* Variant of ShouldReduce: the reduction fires one epoch early.
ShouldReduceAtPatience(nbad) == nbad >= Patience

\* ReduceLROnPlateau.step: if self.num_bad_epochs > self.patience.
ShouldReduce(nbad) == nbad > Patience

\* ReduceLROnPlateau._reduce_lr: new_lr = max(old_lr * factor, min_lr),
\* assigned only if old_lr - new_lr > eps.
ReduceLr(old) ==
    LET new == RatMax(RatMul(old, Factor), MinLr) IN
    IF RatLt(Eps, RatSub(old, new)) THEN new ELSE old

----------------------------------------------------------------------------
(* Epoch loop                                                               *)

\* The epoch-loop cell is started, for the first time or again: lines
\* 254-255, and the for statement of line 257 binds epoch to 0.  The
\* optimizer and the scheduler are those of the cell before and keep their
\* state when the cell is run again.
StartLoop ==
    /\ pc \in {"ready", "trained"}
    /\ loop_runs < MaxLoopRuns
    /\ loop_runs' = loop_runs + 1
    /\ epoch' = Defined(0)
    /\ pc' = "train_enter"
    /\ error' = "none"
    /\ UNCHANGED <<train_size, val_size, test_size, bi, training, params,
                   bn_stats, lr, best, num_bad_epochs, running_loss, correct,
                   total, val_loss, all_preds, all_labels, acc, cm>>
    /\ UNCHANGED dvars

\* train_epoch, lines 216-217: model.train() and the accumulators.
TrainEnter ==
    /\ pc = "train_enter"
    /\ training' = ModelTrain
    /\ running_loss' = 0 /\ correct' = 0 /\ total' = 0
    /\ bi' = 0
    /\ pc' = "train_loop"
    /\ UNCHANGED <<train_size, val_size, test_size, loop_runs, epoch, params,
                   bn_stats, lr, best, num_bad_epochs, val_loss, all_preds,
                   all_labels, acc, cm, error>>
    /\ UNCHANGED dvars

\* One iteration of the loop of train_epoch, lines 218-229.
TrainBatch ==
    /\ pc = "train_loop"
    /\ bi < NumBatches(train_size)
    /\ LET size == BatchLen(train_size, bi) IN
       \E loss \in BatchLosses(NumClasses) :
       \E ok \in BatchCorrect(NumClasses, size) :
         /\ bn_stats' = ForwardStats(training, bn_stats)
         /\ params' = OptimizerStep(params)
         /\ running_loss' = running_loss + loss * size
         /\ correct' = correct + ok
         /\ total' = total + size
    /\ bi' = bi + 1
    /\ UNCHANGED <<train_size, val_size, test_size, pc, loop_runs, epoch,
                   training, lr, best, num_bad_epochs, val_loss, all_preds,
                   all_labels, acc, cm, error>>
    /\ UNCHANGED dvars

\* train_epoch returns running_loss / total (line 230), which raises
\* ZeroDivisionError when the loader was empty and ends the cell; its locals
\* are gone.  Otherwise the epoch loop goes on to eval_epoch.
TrainReturn ==
    /\ pc = "train_loop"
    /\ bi = NumBatches(train_size)
    /\ running_loss' = 0 /\ correct' = 0 /\ total' = 0
    /\ IF total = 0
       THEN pc' = "failed" /\ error' = "ZeroDivisionError"
       ELSE pc' = "eval_enter" /\ error' = error
    /\ UNCHANGED <<train_size, val_size, test_size, loop_runs, epoch, bi,
                   training, params, bn_stats, lr, best, num_bad_epochs,
                   val_loss, all_preds, all_labels, acc, cm>>
    /\ UNCHANGED dvars

\* eval_epoch, lines 233-235: model.eval(), the accumulators, no_grad.
EvalEnter ==
    /\ pc = "eval_enter"
    /\ training' = ModelEval
    /\ running_loss' = 0 /\ correct' = 0 /\ total' = 0
    /\ bi' = 0
    /\ pc' = "eval_loop"
    /\ UNCHANGED <<train_size, val_size, test_size, loop_runs, epoch, params,
                   bn_stats, lr, best, num_bad_epochs, val_loss, all_preds,
                   all_labels, acc, cm, error>>
    /\ UNCHANGED dvars

\* One iteration of the loop of eval_epoch, lines 236-244.
EvalBatch ==
    /\ pc = "eval_loop"
    /\ bi < NumBatches(val_size)
    /\ LET size == BatchLen(val_size, bi) IN
       \E loss \in BatchLosses(NumClasses) :
       \E ok \in BatchCorrect(NumClasses, size) :
         /\ bn_stats' = ForwardStats(training, bn_stats)
         /\ running_loss' = running_loss + loss * size
         /\ correct' = correct + ok
         /\ total' = total + size
    /\ bi' = bi + 1
    /\ UNCHANGED <<train_size, val_size, test_size, pc, loop_runs, epoch,
                   training, params, lr, best, num_bad_epochs, val_loss,
                   all_preds, all_labels, acc, cm, error>>
    /\ UNCHANGED dvars

\* eval_epoch returns running_loss / total (line 245); its locals are gone.
\* With an empty validation loader total is 0: the division raises
\* ZeroDivisionError, val_loss is not assigned and the epoch-loop cell ends.
EvalReturn ==
    /\ pc = "eval_loop"
    /\ bi = NumBatches(val_size)
    /\ running_loss' = 0 /\ correct' = 0 /\ total' = 0
    /\ IF total = 0
       THEN /\ pc' = "failed"
            /\ error' = "ZeroDivisionError"
            /\ val_loss' = val_loss
       ELSE /\ pc' = "sched"
            /\ error' = error
            /\ val_loss' = Quotient(running_loss, total)
    /\ UNCHANGED <<train_size, val_size, test_size, loop_runs, epoch, bi,
                   training, params, bn_stats, lr, best, num_bad_epochs,
                   all_preds, all_labels, acc, cm>>
    /\ UNCHANGED dvars

\* scheduler.step(val_loss) (line 260), the rest of the loop body, and the
\* for statement of line 257 taking the next value of range(num_epochs):
\* when the range is exhausted the loop ends and epoch keeps its last value.
SchedulerStep ==
    /\ pc = "sched"
    /\ LET better == IsBetter(val_loss, best)
           nbad == IF better THEN 0 ELSE num_bad_epochs + 1
       IN  /\ best' = IF better THEN [inf |-> FALSE, v |-> val_loss] ELSE best
           /\ IF ShouldReduce(nbad)
              THEN /\ lr' = ReduceLr(lr)
                   /\ num_bad_epochs' = 0
              ELSE /\ lr' = lr
                   /\ num_bad_epochs' = nbad
    /\ IF epoch.val + 1 < NumEpochs
       THEN epoch' = Defined(epoch.val + 1) /\ pc' = "train_enter"
       ELSE epoch' = epoch /\ pc' = "trained"
    /\ UNCHANGED <<train_size, val_size, test_size, loop_runs, bi, training,
                   params, bn_stats, running_loss, correct, total, val_loss,
                   all_preds, all_labels, acc, cm, error>>
    /\ UNCHANGED dvars

----------------------------------------------------------------------------
(* Test evaluation cell                                                     *)

\* Lines 299-300: model.eval(); all_preds, all_labels = [], [].  The cell
\* runs after the epoch-loop cell has ended, normally or by an exception.
TestEnter ==
    /\ pc \in {"trained", "failed"}
    /\ training' = ModelEval
    /\ all_preds' = <<>>
    /\ all_labels' = <<>>
    /\ bi' = 0
    /\ pc' = "test_loop"
    /\ UNCHANGED <<train_size, val_size, test_size, loop_runs, epoch, params,
                   bn_stats, lr, best, num_bad_epochs, running_loss, correct,
                   total, val_loss, acc, cm, error>>
    /\ UNCHANGED dvars

\* The labels of the batch the test loader yields after i batches: the
\* loader is not shuffled, the dataset returns label2idx[rec['label']].
BatchLabels(recs, i) ==
    [k \in 1..BatchLen(Len(recs), i) |->
        Label2Idx(classes.val, recs[i * BatchSize + k].label)]

\* One iteration of the loop over test_loader, lines 302-307: the loader
\* yields the labels of the batch, the model its predictions.  The loop is
\* at the top level of the cell, so its target `labels` is the global name:
\* it is rebound to the label tensor of the batch, written as the sequence
\* of its elements.
TestBatch ==
    /\ pc = "test_loop"
    /\ bi < NumBatches(test_size)
    /\ LET size == BatchLen(test_size, bi) IN
       \E preds \in [1..size -> 0..(NumClasses - 1)] :
         /\ bn_stats' = ForwardStats(training, bn_stats)
         /\ all_preds' = all_preds \o preds
         /\ all_labels' = all_labels \o BatchLabels(test_records, bi)
    /\ labels' = Defined(BatchLabels(test_records, bi))
    /\ bi' = bi + 1
    /\ UNCHANGED <<train_size, val_size, test_size, pc, loop_runs, epoch,
                   training, params, lr, best, num_bad_epochs, running_loss,
                   correct, total, val_loss, acc, cm, error>>
    /\ UNCHANGED <<annotations, dataset_records, classes, rng, tr, vr,
                   train_records, val_records, test_records, split_runs,
                   split_log, weights, viz_done, last_cell>>

\* sklearn.metrics.accuracy_score(y_true, y_pred); on empty lists the mean
\* is nan, written 0/0.
AccuracyScore(t, p) ==
    Rat(Cardinality({k \in 1..Len(t) : t[k] = p[k]}), Len(t))

\* sklearn's unique_labels(y_true, y_pred): the labels that occur, ascending.
RECURSIVE SortedSeq(_)
SortedSeq(S) ==
    IF S = {} THEN <<>>
    ELSE LET m == CHOOSE x \in S : \A y \in S : x <= y IN
         <<m>> \o SortedSeq(S \ {m})

UniqueLabels(t, p) == SortedSeq(Range(t) \cup Range(p))

\* sklearn.metrics.confusion_matrix(y_true, y_pred) without `labels`: rows
\* and columns are the labels that occur in y_true or y_pred, ascending.
ConfusionMatrix(t, p) ==
    LET ls == UniqueLabels(t, p) IN
    [a \in 1..Len(ls) |->
        [b \in 1..Len(ls) |->
            Cardinality({k \in 1..Len(t) : t[k] = ls[a] /\ p[k] = ls[b]})]]

\* classification_report(y_true, y_pred, target_names=classes) without
\* `labels` raises ValueError when the number of labels that occur differs
\* from len(target_names).
ReportRaises(t, p, names) == Len(UniqueLabels(t, p)) # Len(names)

\* Lines 309-314, after the loop.  The weighted precision and recall and
\* the printed report are output only.
Report ==
    /\ pc = "test_loop"
    /\ bi = NumBatches(test_size)
    /\ acc' = AccuracyScore(all_labels, all_preds)
    /\ IF ReportRaises(all_labels, all_preds, classes.val)
       THEN /\ error' = "ValueError"
            /\ cm' = cm
       ELSE /\ error' = "none"
            /\ cm' = ConfusionMatrix(all_labels, all_preds)
    /\ pc' = "done"
    /\ UNCHANGED <<train_size, val_size, test_size, loop_runs, epoch, bi,
                   training, params, bn_stats, lr, best, num_bad_epochs,
                   running_loss, correct, total, val_loss, all_preds,
                   all_labels>>
    /\ UNCHANGED dvars

----------------------------------------------------------------------------
(* The training and evaluation cells as a state machine                     *)

\* The annotation files the training cells are run on: one entry of 2 to
\* MaxObjects objects, of one class or of two.  Each of their lists fits in
\* one batch of BatchSize.
TrainInputs ==
    {AnnotationOf(n) : n \in 2..MaxObjects}
        \cup {RingAnnotationOf(n) : n \in 2..MaxObjects}

\* The state after the cells of the notebook up to the scheduler cell, run
\* in order on one of these files, the visualisation cell run or skipped.
\* Run on fewer than NumSamples records that cell raises before it draws.
\* The epoch-loop cell has not run: epoch is not bound.
InitTrain ==
    /\ \E anns \in TrainInputs : \E viz \in BOOLEAN :
         LET recs == FlattenEntries(anns, <<>>).records
             s0 == IF viz /\ Len(recs) >= NumSamples
                   THEN SampleState(SeededState, Len(recs), NumSamples)
                   ELSE SeededState
             r == SplitDataset(recs, s0, DefaultTrainRatio, DefaultValRatio)
         IN  /\ annotations = anns
             /\ labels = Defined(LabelsOf(recs))
             /\ classes = Defined(Classes(LabelsOf(recs)))
             /\ viz_done = viz
             /\ dataset_records = r.list
             /\ rng = r.state
             /\ train_records = r.train
             /\ val_records = r.val
             /\ test_records = r.test
             /\ split_log =
                  <<[recs_in |-> recs, rng_in |-> s0,
                     tr |-> DefaultTrainRatio, vr |-> DefaultValRatio,
                     raised |-> r.raised,
                     train |-> r.train, val |-> r.val, test |-> r.test]>>
             /\ weights = ComputeWeights(r.train)
             /\ train_size = Len(r.train)
             /\ val_size = Len(r.val)
             /\ test_size = Len(r.test)
    /\ tr = DefaultTrainRatio
    /\ vr = DefaultValRatio
    /\ split_runs = 1
    /\ last_cell = "weights"
    /\ error = "none"
    /\ pc = "ready"
    /\ loop_runs = 0
    /\ epoch = Undefined
    /\ bi = 0
    /\ training = TRUE
    /\ params = 0
    /\ bn_stats = 0
    /\ lr = LrInit
    /\ best = [inf |-> TRUE, v |-> Rat(0, 1)]
    /\ num_bad_epochs = 0
    /\ running_loss = 0 /\ correct = 0 /\ total = 0
    /\ val_loss = Rat(0, 1)
    /\ all_preds = <<>> /\ all_labels = <<>>
    /\ acc = Rat(0, 1)
    /\ cm = <<>>

NextTrain ==
    \/ StartLoop
    \/ TrainEnter \/ TrainBatch \/ TrainReturn
    \/ EvalEnter \/ EvalBatch \/ EvalReturn
    \/ SchedulerStep
    \/ TestEnter \/ TestBatch \/ Report

SpecTrain == InitTrain /\ [][NextTrain]_vars

----------------------------------------------------------------------------
(* Properties of the training and evaluation cells                          *)

\* The number of positions with true label i and predicted label j.
PairCount(t, p, i, j) ==
    Cardinality({k \in 1..Len(t) : t[k] = i /\ p[k] = j})

\* C8: once the evaluation cell has finished, the confusion matrix is the
\* K x K matrix whose entry (i, j) counts the positions with true label i
\* and predicted label j, and the accuracy is the fraction of positions
\* whose prediction equals the label.
C8_ConfusionMatrix ==
    pc = "done" =>
        /\ cm = [i \in 1..NumClasses |->
                    [j \in 1..NumClasses |->
                        PairCount(all_labels, all_preds, i - 1, j - 1)]]
        /\ Len(all_labels) = Len(test_records)
        /\ acc.num * Len(all_labels) =
               acc.den * Cardinality({k \in 1..Len(all_labels) :
                                         all_labels[k] = all_preds[k]})

\* START: the loop cell has not run; DONE: it has ended normally; STOPPED:
\* it has ended by an exception.
PhaseOf(p) ==
    CASE p = "ready" -> "START"
      [] p \in {"train_enter", "train_loop"} -> "TRAIN"
      [] p \in {"eval_enter", "eval_loop"} -> "EVAL"
      [] p = "sched" -> "SCHED"
      [] p = "trained" -> "DONE"
      [] p = "failed" -> "STOPPED"
      [] OTHER -> "TEST"

Phase == PhaseOf(pc)

PhaseNext == PhaseOf(pc')

\* C9: only steps of the training phase change the parameter state (the
\* parameters and the batch-norm statistics); steps of eval_epoch and of
\* the test pass leave it unchanged; and the phases of an epoch follow
\* each other as TRAIN, EVAL, scheduler update: the first epoch of a run of
\* the loop starts in TRAIN, EVAL is entered from TRAIN only, the scheduler
\* update from EVAL only, the next epoch and the end of the loop from the
\* scheduler update only, unless an exception of eval_epoch has ended the
\* loop; the test pass follows the end of the loop.
C9_OnlyTrainingUpdates ==
    [][ /\ (params' # params \/ bn_stats' # bn_stats) => pc = "train_loop"
        /\ PhaseNext # Phase =>
             \/ Phase \in {"START", "DONE"} /\ PhaseNext = "TRAIN"
                    /\ epoch'.val = 0
             \/ Phase = "TRAIN" /\ PhaseNext = "EVAL"
                    /\ epoch'.val = epoch.val
             \/ Phase = "EVAL" /\ PhaseNext = "SCHED"
                    /\ epoch'.val = epoch.val
             \/ Phase = "SCHED" /\ PhaseNext = "TRAIN"
                    /\ epoch'.val = epoch.val + 1
             \/ Phase = "SCHED" /\ PhaseNext = "DONE"
                    /\ epoch.val = NumEpochs - 1
                    /\ epoch'.val = epoch.val
             \/ Phase = "EVAL" /\ PhaseNext = "STOPPED"
                    /\ error' = "ZeroDivisionError"
             \/ Phase \in {"DONE", "STOPPED"} /\ PhaseNext = "TEST" ]_vars

C9_Witness ==
    /\ pc = "test_loop"
    /\ bi = NumBatches(test_size)
    /\ bi > 0
    /\ loop_runs > 1
    /\ epoch = Defined(NumEpochs - 1)
    /\ params = loop_runs * NumEpochs * NumBatches(train_size)
    /\ bn_stats = params

\* The validation loss of this epoch improves on the best so far by more
\* than the relative threshold 1e-4.
Improved ==
    \/ best.inf
    \/ val_loss.num * best.v.den * 10000 < best.v.num * val_loss.den * 9999

Half(x) == Rat(x.num, 2 * x.den)

\* More than the scheduler's eps of 1e-8, in units of 1e-8.
AboveEps(x) == x.num > x.den

\* C10 (as amended): the scheduler step halves the learning rate at the
\* third consecutive epoch without improvement (more than the patience of
\* 2) if the halving changes the rate by more than eps, restarts the count,
\* and otherwise leaves the rate unchanged; the rate never increases, over
\* any number of runs of the loop.
C10_PlateauHalving ==
    [][ /\ RatLeq(lr', lr)
        /\ pc = "sched" =>
             IF ~Improved /\ num_bad_epochs = 2
             THEN /\ IF AboveEps(Half(lr))
                     THEN RatEq(lr', Half(lr))
                     ELSE lr' = lr
                  /\ num_bad_epochs' = 0
             ELSE lr' = lr ]_vars

\* The scheduler has just made its 43rd step, the validation loss has never
\* improved on that of the first epoch, so the rate was to be reduced at
\* steps 4, 7, ..., 43: the first 13 reductions halved it, the 14th left it.
C10_Witness ==
    /\ loop_runs = 5
    /\ epoch = Defined(3)
    /\ pc = "train_enter"
    /\ num_bad_epochs = 0
    /\ ~best.inf
    /\ RatEq(best.v, Rat(12000, 1))
    /\ RatEq(lr, Rat(10000, 8192))

\* C10 (as claimed): the scheduler step halves the learning rate once the
\* validation loss has not improved for 2 epochs.
C10_HalvesAfterTwoEpochs ==
    [][ (pc = "sched" /\ ~Improved /\ num_bad_epochs + 1 = 2) =>
            RatEq(lr', Half(lr)) ]_vars

====
